---- MODULE Spec2Model ----
(***************************************************************************)
(* A model of two parts of redex:                                          *)
(*   - the peephole pass as PeepholeTest.cpp drives and observes it        *)
(*     (src/test/integ/PeepholeTest.cpp); the engine itself, PeepholeV2,   *)
(*     is modelled from the specification's section 4 with the rule        *)
(*     windows the test's expected streams fix;                            *)
(*   - the configuration accessors and the ConfigFiles constructor         *)
(*     (src/libredex/ConfigFiles.cpp).                                     *)
(***************************************************************************)
EXTENDS Integers, Sequences, FiniteSets, TLC

VARIABLES
  \* ---- PeepholeTest::test_1 and the pass it runs
  pc,        \* "idle" | "scan" | "ran" | "checked"
  name,      \* the method name test_1 was given ("gen" for a generated stream)
  stream,    \* the method's instruction stream the pass reads
  expected,  \* the list test_1 compares the result with
  pos,       \* scan position of the pass in stream (1-based)
  out,       \* the pass's output accumulator
  result,    \* the instructions released from the method after the pass
  verdict,   \* "none" | "pass" | "fail": EXPECT_EQ(result, expected)
  runs,      \* passes completed over this method
  source,    \* history: the stream the first pass was given
  first,     \* history: the result of the first pass
  applied,   \* history: one record per window the current pass has handled
  \* ---- JsonWrapper / ConfigFiles
  m_config,  \* the Json::Value the wrapper holds: [key |-> JSON value]
  built,     \* whether ConfigFiles has been constructed
  known,     \* the type names DexType::get_type finds
  knownAtCtor, \* history: known at the moment of construction
  m_no_optimizations_annos, \* the denylist
  param,     \* the caller's output object: [kind, val]
  last       \* history: the last getter call

pvars == <<pc, name, stream, expected, pos, out, result, verdict, runs,
           source, first, applied>>
cvars == <<m_config, built, known, knownAtCtor, m_no_optimizations_annos,
           param, last>>
vars == <<pvars, cvars>>

(***************************************************************************)
(* Bounds                                                                  *)
(***************************************************************************)
\* longest generated instruction stream
MaxLen == 2
\* longest configured or default list of strings
MaxList == 2
\* passes run over one method (the second run is the re-run on the output)
MaxRuns == 2

(***************************************************************************)
(* Instruction model                                                       *)
(***************************************************************************)
OPCODE_CONST_16 == "OPCODE_CONST_16"
OPCODE_MOVE_16 == "OPCODE_MOVE_16"
OPCODE_NEG_INT == "OPCODE_NEG_INT"
OPCODE_ADD_INT_LIT8 == "OPCODE_ADD_INT_LIT8"
OPCODE_ADD_INT_LIT16 == "OPCODE_ADD_INT_LIT16"
OPCODE_MUL_INT_LIT8 == "OPCODE_MUL_INT_LIT8"
OPCODE_MUL_INT_LIT16 == "OPCODE_MUL_INT_LIT16"
OPCODE_DIV_INT_LIT8 == "OPCODE_DIV_INT_LIT8"
OPCODE_DIV_INT_LIT16 == "OPCODE_DIV_INT_LIT16"

AddLitOps == {OPCODE_ADD_INT_LIT8, OPCODE_ADD_INT_LIT16}
MulLitOps == {OPCODE_MUL_INT_LIT8, OPCODE_MUL_INT_LIT16}
DivLitOps == {OPCODE_DIV_INT_LIT8, OPCODE_DIV_INT_LIT16}
Lit8Ops == {OPCODE_ADD_INT_LIT8, OPCODE_MUL_INT_LIT8, OPCODE_DIV_INT_LIT8}
Lit16Ops == {OPCODE_ADD_INT_LIT16, OPCODE_MUL_INT_LIT16, OPCODE_DIV_INT_LIT16}
ArithLitOps == Lit8Ops \cup Lit16Ops

\* A literal is present iff the opcode's format class declares a literal slot.
opcode_has_literal(op) == op \in ArithLitOps \cup {OPCODE_CONST_16}

\* dasm(opcode, {dst, srcs..., literal}): one instruction value. An opcode
\* without a literal slot holds none (kept as 0 and never read).
dasm(op, dst, srcs, lit) ==
  [opcode |-> op, dest |-> dst, srcs |-> srcs,
   literal |-> IF opcode_has_literal(op) THEN lit ELSE 0]

has_literal(insn) == opcode_has_literal(insn.opcode)

\* Bits a register slot has in the opcode's encoding form (Dalvik formats:
\* 12x = 4/4, 21s = 8, 22b = 8/8, 22s = 4/4, 32x = 16/16).
RegBits(op) ==
  CASE op = OPCODE_NEG_INT -> 4
    [] op \in Lit16Ops -> 4
    [] op \in Lit8Ops -> 8
    [] op = OPCODE_CONST_16 -> 8
    [] op = OPCODE_MOVE_16 -> 16

\* Encodability oracle: every register of the instruction fits its slot.
Encodable(insn) ==
  /\ insn.dest < 2 ^ RegBits(insn.opcode)
  /\ \A i \in 1..Len(insn.srcs) : insn.srcs[i] < 2 ^ RegBits(insn.opcode)

(***************************************************************************)
(* The test's helpers                                                      *)
(***************************************************************************)
\* DexInstructionList::instructions_equal
instructions_equal(lhs, rhs) ==
  IF \/ lhs.opcode # rhs.opcode
     \/ has_literal(lhs) # has_literal(rhs)
     \/ (has_literal(lhs) /\ lhs.literal # rhs.literal)
     \/ Len(lhs.srcs) # Len(rhs.srcs)
     \/ lhs.dest # rhs.dest
  THEN FALSE
  ELSE \A i \in 1..Len(lhs.srcs) : lhs.srcs[i] = rhs.srcs[i]

\* DexInstructionList::operator==
list_equal(lhs, rhs) ==
  /\ Len(lhs) = Len(rhs)
  /\ \A i \in 1..Len(lhs) : instructions_equal(lhs[i], rhs[i])

\* op_lit with the destination register ignored (always v1).
op_lit_near(opcode, literal, dst_reg) ==
  << dasm(OPCODE_CONST_16, 0, <<>>, 42), dasm(opcode, 1, <<0>>, literal) >>

\* op_lit with the literal operand dropped (the instruction holds 0).
op_lit_zero(opcode, literal, dst_reg) ==
  << dasm(OPCODE_CONST_16, 0, <<>>, 42), dasm(opcode, dst_reg, <<0>>, 0) >>

\* op_lit(opcode, literal, dst_reg): CONST_16 v0, 42; opcode dst_reg, v0, literal
op_lit(opcode, literal, dst_reg) ==
  << dasm(OPCODE_CONST_16, 0, <<>>, 42), dasm(opcode, dst_reg, <<0>>, literal) >>

\* op_unary without the leading CONST_16.
op_unary_alone(opcode) ==
  << dasm(opcode, 1, <<0>>, 0) >>

\* op_unary(opcode): CONST_16 v0, 42; opcode v1, v0
op_unary(opcode) ==
  << dasm(OPCODE_CONST_16, 0, <<>>, 42), dasm(opcode, 1, <<0>>, 0) >>

\* The expected move without the CONST_16 in front of it.
move16_alone == << dasm(OPCODE_MOVE_16, 1, <<0>>, 0) >>

\* DexInstructionList move16 = op_unary(OPCODE_MOVE_16)
move16 == op_unary(OPCODE_MOVE_16)

\* The expected negate built with the move opcode.
negate_as_move == op_unary(OPCODE_MOVE_16)

\* DexInstructionList negate = op_unary(OPCODE_NEG_INT)
negate == op_unary(OPCODE_NEG_INT)

Case(n, src, exp) == [name |-> n, src |-> src, expected |-> exp]
NoChange(n, src) == Case(n, src, src)

\* TEST_F(PeepholeTest, Arithmetic): every test_1 / test_1_nochange call.
IdentityCases ==
  { Case("add8_0_to_move", op_lit(OPCODE_ADD_INT_LIT8, 0, 1), move16),
    Case("add16_0_to_move", op_lit(OPCODE_ADD_INT_LIT16, 0, 1), move16),
    Case("mult8_1_to_move", op_lit(OPCODE_MUL_INT_LIT8, 1, 1), move16),
    Case("mult16_1_to_move", op_lit(OPCODE_MUL_INT_LIT16, 1, 1), move16) }
NegateCases ==
  { Case("mult8_neg1_to_neg", op_lit(OPCODE_MUL_INT_LIT8, -1, 1), negate),
    Case("mult16_neg1_to_neg", op_lit(OPCODE_MUL_INT_LIT16, -1, 1), negate),
    Case("div8_neg1_to_neg", op_lit(OPCODE_DIV_INT_LIT8, -1, 1), negate),
    Case("div16_neg1_to_neg", op_lit(OPCODE_DIV_INT_LIT16, -1, 1), negate) }
NoChangeCases ==
  { NoChange("add8_15", op_lit(OPCODE_ADD_INT_LIT8, 15, 1)),
    NoChange("add16_1", op_lit(OPCODE_ADD_INT_LIT16, 1, 1)),
    NoChange("mult8_3", op_lit(OPCODE_MUL_INT_LIT8, 3, 1)),
    NoChange("mult16_12", op_lit(OPCODE_MUL_INT_LIT16, 12, 1)) }
FarCases ==
  { NoChange("mult16_neg1_far", op_lit(OPCODE_MUL_INT_LIT8, -1, 17)) }
TestCases == IdentityCases \cup NegateCases \cup NoChangeCases \cup FarCases

(***************************************************************************)
(* Rule table and matcher                                                  *)
(***************************************************************************)
Shape(ops, lit) == [opcodes |-> ops, literal |-> lit]
Rule(pat, op) == [pattern |-> pat, replace |-> op]

\* The table with a fifth rule whose pattern is a template's own opcode.
Rules_with_neg_rule ==
  << Rule(<<Shape(AddLitOps, 0)>>, OPCODE_MOVE_16),
     Rule(<<Shape(MulLitOps, 1)>>, OPCODE_MOVE_16),
     Rule(<<Shape(MulLitOps, -1)>>, OPCODE_NEG_INT),
     Rule(<<Shape(DivLitOps, -1)>>, OPCODE_NEG_INT),
     Rule(<<Shape({OPCODE_NEG_INT}, 0)>>, OPCODE_MOVE_16) >>

\* Rules 1-4. Each pattern is the literal-arithmetic instruction alone: the
\* test's expected streams keep the CONST_16 that precedes it.
Rules ==
  << Rule(<<Shape(AddLitOps, 0)>>, OPCODE_MOVE_16),
     Rule(<<Shape(MulLitOps, 1)>>, OPCODE_MOVE_16),
     Rule(<<Shape(MulLitOps, -1)>>, OPCODE_NEG_INT),
     Rule(<<Shape(DivLitOps, -1)>>, OPCODE_NEG_INT) >>

PatLen(r) == Len(Rules[r].pattern)

\* The window of rule r at position p, <<>> when the stream is too short.
Window(s, p, r) ==
  IF p + PatLen(r) - 1 <= Len(s) THEN SubSeq(s, p, p + PatLen(r) - 1) ELSE <<>>

\* Pattern match with its side-condition on the bound literal.
Matches(r, w) ==
  /\ Len(w) = PatLen(r)
  /\ \A i \in 1..Len(w) :
       /\ w[i].opcode \in Rules[r].pattern[i].opcodes
       /\ w[i].literal = Rules[r].pattern[i].literal

\* The template, with Rd and Rs bound by the arithmetic instruction.
Instantiate(r, w) ==
  << dasm(Rules[r].replace, w[Len(w)].dest, w[Len(w)].srcs, 0) >>

\* A rule applies when it matches and every template instruction is encodable.
Applicable(r, w) ==
  /\ Matches(r, w)
  /\ \A i \in 1..Len(Instantiate(r, w)) : Encodable(Instantiate(r, w)[i])

ApplicableRules(s, p) ==
  { r \in 1..Len(Rules) : Applicable(r, Window(s, p, r)) }

Min(S) == CHOOSE x \in S : \A y \in S : x <= y

\* The rule the matcher picks at p: the first applicable in table order, 0 if none.
SelectRule(s, p) ==
  IF ApplicableRules(s, p) = {} THEN 0 ELSE Min(ApplicableRules(s, p))

\* The scan resuming at the window it has just replaced.
Resume_in_place(p, r) == p

\* Where the scan resumes after a rule was applied at p.
Resume(p, r) == p + PatLen(r)

(***************************************************************************)
(* Generated streams                                                       *)
(***************************************************************************)
Literals == {-1, 0, 1}

\* Well-formed instructions: every literal-arithmetic opcode on v1, v0 with
\* each literal, the 8-bit forms on registers beyond NEG_INT's 4-bit slots,
\* and the three opcodes the test's expected streams hold.
Insns ==
  { i \in
      { dasm(op, 1, <<0>>, l) : op \in ArithLitOps, l \in Literals }
      \cup { dasm(op, 16, <<0>>, -1) : op \in {OPCODE_MUL_INT_LIT8, OPCODE_DIV_INT_LIT8} }
      \cup { dasm(OPCODE_MUL_INT_LIT8, 1, <<16>>, -1),
             dasm(OPCODE_ADD_INT_LIT8, 16, <<0>>, 0),
             dasm(OPCODE_ADD_INT_LIT16, 15, <<0>>, 0),
             dasm(OPCODE_DIV_INT_LIT16, 15, <<15>>, -1) }
      \cup { dasm(OPCODE_CONST_16, 0, <<>>, 42),
             dasm(OPCODE_MOVE_16, 1, <<0>>, 0),
             dasm(OPCODE_NEG_INT, 1, <<0>>, 0) } :
    Encodable(i) }

SeqsUpTo(S, n) == UNION { [1..k -> S] : k \in 0..n }

GenCases == { Case("gen", s, s) : s \in SeqsUpTo(Insns, MaxLen) }

\* One instruction per rule, one a rule matches but cannot encode, two that
\* no rule matches: the streams the fair specification runs over.
LiveInsns ==
  { dasm(OPCODE_ADD_INT_LIT8, 1, <<0>>, 0),
    dasm(OPCODE_MUL_INT_LIT16, 1, <<0>>, 1),
    dasm(OPCODE_MUL_INT_LIT8, 1, <<0>>, -1),
    dasm(OPCODE_DIV_INT_LIT8, 1, <<0>>, -1),
    dasm(OPCODE_MUL_INT_LIT8, 16, <<0>>, -1),
    dasm(OPCODE_ADD_INT_LIT8, 1, <<0>>, 1),
    dasm(OPCODE_CONST_16, 0, <<>>, 42) }

LiveCases == { Case("gen", s, s) : s \in SeqsUpTo(LiveInsns, MaxLen) }

(***************************************************************************)
(* JSON values (Json::Value as ConfigFiles.cpp uses it)                    *)
(***************************************************************************)
\* Every value carries every field, so that any two values compare.
\* t: the value's type; b, i, s: its bool, integer or string payload (a string
\* is a sequence of characters); a: an array's elements; o: an object's
\* members in iteration order, each [k |-> key, v |-> value].
JNull == [t |-> "null", b |-> FALSE, i |-> 0, s |-> <<>>, a |-> <<>>, o |-> <<>>]
JBool(x) == [JNull EXCEPT !.t = "bool", !.b = x]
JInt(x) == [JNull EXCEPT !.t = "int", !.i = x]
JReal == [JNull EXCEPT !.t = "real"]
JStr(x) == [JNull EXCEPT !.t = "string", !.s = x]
JArr(x) == [JNull EXCEPT !.t = "array", !.a = x]
JObj(x) == [JNull EXCEPT !.t = "object", !.o = x]
Member(key, val) == [k |-> key, v |-> val]

\* m_config[name]: the member's value, the null value when there is none.
Json_index(cfg, key) ==
  IF \E n \in 1..Len(cfg.o) : cfg.o[n].k = key
  THEN cfg.o[CHOOSE n \in 1..Len(cfg.o) : cfg.o[n].k = key].v
  ELSE JNull

\* m_config.get(name, dflt): the default when m_config[name] is the null value.
Json_get(cfg, key, dflt) ==
  IF Json_index(cfg, key) = JNull THEN dflt ELSE Json_index(cfg, key)

UpperCase == << "A", "B", "C", "D", "E", "F", "G", "H", "I", "J", "K", "L", "M",
                "N", "O", "P", "Q", "R", "S", "T", "U", "V", "W", "X", "Y", "Z" >>
LowerCase == << "a", "b", "c", "d", "e", "f", "g", "h", "i", "j", "k", "l", "m",
                "n", "o", "p", "q", "r", "s", "t", "u", "v", "w", "x", "y", "z" >>

\* ::tolower on one character
tolower(c) ==
  IF \E n \in 1..Len(UpperCase) : UpperCase[n] = c
  THEN LowerCase[CHOOSE n \in 1..Len(UpperCase) : UpperCase[n] = c]
  ELSE c

\* std::transform(str.begin(), str.end(), str.begin(), tolower)
transform_tolower(str) == [n \in 1..Len(str) |-> tolower(str[n])]

FalseTokens == { <<"0">>, <<"f", "a", "l", "s", "e">>, <<"o", "f", "f">>, <<"n", "o">> }
TrueTokens == { <<"1">>, <<"t", "r", "u", "e">>, <<"o", "n">>, <<"y", "e", "s">> }

Returned(v) == [val |-> v, threw |-> FALSE]
Thrown(v) == [val |-> v, threw |-> TRUE]

\* The bool getter taking every non-zero integer for true.
get_bool_nonzero(cfg, key, dflt, prm) ==
  LET val == Json_get(cfg, key, JBool(dflt))
  IN IF val.t = "bool" THEN Returned(val.b)
     ELSE IF val.t = "int" THEN Returned(val.i # 0)
     ELSE IF val.t = "string"
       THEN IF transform_tolower(val.s) \in FalseTokens THEN Returned(FALSE)
            ELSE IF transform_tolower(val.s) \in TrueTokens THEN Returned(TRUE)
            ELSE Thrown(prm)
     ELSE Thrown(prm)

\* JsonWrapper::get(const char*, bool, bool&): the new param and whether it threw.
get_bool(cfg, key, dflt, prm) ==
  LET val == Json_get(cfg, key, JBool(dflt))
  IN IF val.t = "bool" THEN Returned(val.b)
     ELSE IF val.t = "int"
       THEN IF val.i = 0 \/ val.i = 1 THEN Returned(val.i # 0) ELSE Thrown(prm)
     ELSE IF val.t = "string"
       THEN IF transform_tolower(val.s) \in FalseTokens THEN Returned(FALSE)
            ELSE IF transform_tolower(val.s) \in TrueTokens THEN Returned(TRUE)
            ELSE Thrown(prm)
     ELSE Thrown(prm)

\* str.asString() for each element of an array
strings_of(arr) == [n \in 1..Len(arr) |-> arr[n].s]

Range(f) == { f[x] : x \in DOMAIN f }

\* The list getter without param.clear().
get_vec_noclear(cfg, key, dflt, prm) ==
  LET it == Json_index(cfg, key)
  IN IF it = JNull THEN Returned(dflt) ELSE Returned(prm \o strings_of(it.a))

\* JsonWrapper::get(const char*, const vector<string>&, vector<string>&)
get_vec(cfg, key, dflt, prm) ==
  LET it == Json_index(cfg, key)
  IN IF it = JNull THEN Returned(dflt) ELSE Returned(strings_of(it.a))

\* JsonWrapper::get(const char*, const vector<string>&, unordered_set<string>&)
get_set(cfg, key, dflt, prm) ==
  LET it == Json_index(cfg, key)
  IN IF it = JNull THEN Returned(Range(dflt)) ELSE Returned(Range(strings_of(it.a)))

EmptyMap == [x \in {} |-> <<>>]

\* param[key].push_back(str)
push_back(m, key, str) ==
  [x \in DOMAIN m \cup {key} |->
     IF x = key
     THEN (IF key \in DOMAIN m THEN Append(m[key], str) ELSE <<str>>)
     ELSE m[x]]

\* The inner loop of the map getter over one member's array, from element n.
RECURSIVE push_all(_, _, _, _)
push_all(m, key, elems, n) ==
  IF n > Len(elems) THEN Returned(m)
  ELSE IF elems[n].t # "string" THEN Thrown(m)
  ELSE push_all(push_back(m, key, elems[n].s), key, elems, n + 1)

\* The outer loop of the map getter over the object's members, from member n.
RECURSIVE fill_map(_, _, _)
fill_map(m, members, n) ==
  IF n > Len(members) THEN Returned(m)
  ELSE IF members[n].v.t # "array" THEN Thrown(m)
  ELSE LET r == push_all(m, members[n].k, members[n].v.a, 1)
       IN IF r.threw THEN r ELSE fill_map(r.val, members, n + 1)

\* JsonWrapper::get(const char*, const unordered_map<...>&, unordered_map<...>&)
get_map(cfg, key, dflt, prm) ==
  LET c == Json_index(cfg, key)
  IN IF c = JNull THEN Returned(dflt)
     ELSE IF c.t # "object" THEN Thrown(EmptyMap)
     ELSE fill_map(EmptyMap, c.o, 1)

\* The constructor's loop with make_type in place of get_type: every listed
\* name becomes a type.
denylist_make_type(cfg, types) ==
  LET anno == Json_index(cfg, "no_optimizations_annotations")
  IN IF anno # JNull THEN Range(strings_of(anno.a)) ELSE {}

\* ConfigFiles::ConfigFiles: the set m_no_optimizations_annos is left with.
\* DexType::get_type finds a type only among those that exist (types).
denylist_of(cfg, types) ==
  LET anno == Json_index(cfg, "no_optimizations_annotations")
  IN IF anno # JNull
     THEN { x \in Range(strings_of(anno.a)) : x \in types }
     ELSE {}

(***************************************************************************)
(* Configurations, defaults and previous contents                          *)
(***************************************************************************)
sA == <<"a">>
sB == <<"b">>
sX == <<"x">>
TyA == <<"L", "A", ";">>
TyB == <<"L", "B", ";">>
Types == {TyA, TyB}

toupper(c) ==
  IF \E n \in 1..Len(LowerCase) : LowerCase[n] = c
  THEN UpperCase[CHOOSE n \in 1..Len(LowerCase) : LowerCase[n] = c]
  ELSE c

\* Every spelling of token tok in upper and lower case.
Spellings(tok) ==
  { str \in [1..Len(tok) -> { tok[n] : n \in 1..Len(tok) }
                            \cup { toupper(tok[n]) : n \in 1..Len(tok) }] :
      \A n \in 1..Len(tok) : str[n] = tok[n] \/ str[n] = toupper(tok[n]) }

OtherStrings ==
  { <<>>, <<"2">>, <<"o">>, <<"y">>, <<"n", "o", "n">>, <<"0", "0">>,
    <<"o", "n", " ">>, <<"t", "r", "u">>, <<"-", "1">> }

\* Every spelling of the short tokens; three spellings of the long ones.
FlagStrings ==
  UNION { Spellings(tok) :
            tok \in { <<"0">>, <<"1">>, <<"o", "n">>, <<"n", "o">>,
                      <<"o", "f", "f">>, <<"y", "e", "s">> } }
  \cup { <<"t", "r", "u", "e">>, <<"T", "R", "U", "E">>, <<"T", "r", "u", "e">>,
         <<"f", "a", "l", "s", "e">>, <<"F", "A", "L", "S", "E">>,
         <<"F", "a", "l", "s", "e">> }
  \cup OtherStrings

FlagValues ==
  { JBool(TRUE), JBool(FALSE), JInt(-1), JInt(0), JInt(1), JInt(2), JReal,
    JArr(<<>>), JArr(<<JBool(TRUE)>>), JObj(<<>>) }
  \cup { JStr(str) : str \in FlagStrings }

StringLists(S) == SeqsUpTo(S, MaxList)

MapValues ==
  { JObj(<<>>),
    JObj(<<Member("a", JArr(<<JStr(sA), JStr(sB)>>)), Member("b", JArr(<<JStr(sB)>>))>>),
    JObj(<<Member("a", JArr(<<>>)), Member("b", JArr(<<JStr(sA)>>))>>),
    JObj(<<Member("a", JArr(<<JStr(sA)>>)), Member("b", JStr(sB))>>),
    JObj(<<Member("a", JArr(<<JStr(sA), JInt(1), JStr(sB)>>))>>),
    JStr(sA),
    JArr(<<JStr(sA)>>) }

Configs ==
  { JNull }
  \cup { JObj(<<Member("flag", v)>>) : v \in FlagValues }
  \cup { JObj(<<Member("list", JArr(l))>>) : l \in StringLists({JStr(sA), JStr(sB)}) }
  \cup { JObj(<<Member("map", v)>>) : v \in MapValues }
  \cup { JObj(<<Member("no_optimizations_annotations", JArr(l))>>) :
           l \in StringLists({JStr(TyA), JStr(TyB)}) }

VecDefaults == { <<>>, <<sX, sA>> }
VecPrevious == { <<>>, <<sB, sX>> }
MapDefaults == { EmptyMap, ("d" :> <<sX>>) }
MapPrevious == { EmptyMap, ("a" :> <<sX>>) @@ ("p" :> <<sB>>) }

(***************************************************************************)
(* Each part's state while the other part's specification runs           *)
(***************************************************************************)
ConfigIdle ==
  /\ m_config = JNull
  /\ built = FALSE
  /\ known = {}
  /\ knownAtCtor = {}
  /\ m_no_optimizations_annos = {}
  /\ param = [kind |-> "bool", val |-> FALSE]
  /\ last = [op |-> "none"]

PeepholeIdle ==
  /\ pc = "idle"
  /\ name = "gen"
  /\ stream = <<>>
  /\ expected = <<>>
  /\ pos = 1
  /\ out = <<>>
  /\ result = <<>>
  /\ verdict = "none"
  /\ runs = 0
  /\ source = <<>>
  /\ first = <<>>
  /\ applied = <<>>

(***************************************************************************)
(* PeepholeTest::test_1 and the pass                                       *)
(***************************************************************************)
InitFrom(cases) ==
  /\ \E c \in cases :
       /\ name = c.name
       /\ stream = c.src
       /\ expected = c.expected
       /\ source = c.src
  /\ pc = "idle"
  /\ pos = 1
  /\ out = <<>>
  /\ result = <<>>
  /\ verdict = "none"
  /\ runs = 0
  /\ first = <<>>
  /\ applied = <<>>
  /\ ConfigIdle

InitPeephole == InitFrom(TestCases \cup GenCases)

\* test_1: make_void_method, add_method, run_passes: the pass starts on the method.
RunPasses ==
  /\ pc = "idle"
  /\ pc' = "scan"
  /\ pos' = 1
  /\ out' = <<>>
  /\ applied' = <<>>
  /\ UNCHANGED <<name, stream, expected, result, verdict, runs, source, first>>
  /\ UNCHANGED cvars

\* The matcher found a rule at pos: the window is replaced by the template.
ApplyRule ==
  /\ pc = "scan"
  /\ pos <= Len(stream)
  /\ SelectRule(stream, pos) # 0
  /\ LET r == SelectRule(stream, pos)
         t == Instantiate(r, Window(stream, pos, r))
     IN /\ out' = out \o t
        /\ pos' = Resume(pos, r)
        /\ applied' = Append(applied,
             [at |-> pos, rule |-> r, outAt |-> Len(out) + 1, outLen |-> Len(t)])
  /\ UNCHANGED <<pc, name, stream, expected, result, verdict, runs, source, first>>
  /\ UNCHANGED cvars

\* No rule applies at pos: the instruction is kept and the scan advances by one.
Advance ==
  /\ pc = "scan"
  /\ pos <= Len(stream)
  /\ SelectRule(stream, pos) = 0
  /\ out' = Append(out, stream[pos])
  /\ pos' = pos + 1
  /\ applied' = Append(applied,
       [at |-> pos, rule |-> 0, outAt |-> Len(out) + 1, outLen |-> 1])
  /\ UNCHANGED <<pc, name, stream, expected, result, verdict, runs, source, first>>
  /\ UNCHANGED cvars

\* End of the stream: the driver commits the output; test_1 syncs and
\* releases the method's instructions.
Commit ==
  /\ pc = "scan"
  /\ pos > Len(stream)
  /\ pc' = "ran"
  /\ result' = out
  /\ runs' = runs + 1
  /\ first' = IF runs = 0 THEN out ELSE first
  /\ UNCHANGED <<name, stream, expected, pos, out, verdict, source, applied>>
  /\ UNCHANGED cvars

\* EXPECT_EQ(result, expected)
ExpectEq ==
  /\ pc = "ran"
  /\ pc' = "checked"
  /\ verdict' = IF list_equal(result, expected) THEN "pass" ELSE "fail"
  /\ UNCHANGED <<name, stream, expected, pos, out, result, runs, source, first,
                 applied>>
  /\ UNCHANGED cvars

\* The pass is run again over its own output.
RunAgain ==
  /\ pc = "checked"
  /\ runs < MaxRuns
  /\ pc' = "scan"
  /\ stream' = result
  /\ pos' = 1
  /\ out' = <<>>
  /\ applied' = <<>>
  /\ UNCHANGED <<name, expected, result, verdict, runs, source, first>>
  /\ UNCHANGED cvars

NextPeephole ==
  \/ RunPasses
  \/ ApplyRule
  \/ Advance
  \/ Commit
  \/ ExpectEq
  \/ RunAgain

SpecPeephole == InitPeephole /\ [][NextPeephole]_vars

(***************************************************************************)
(* ConfigFiles and its accessors                                           *)
(***************************************************************************)
InitConfig ==
  /\ m_config \in Configs
  /\ built = FALSE
  /\ known \in { {}, {TyA} }
  /\ knownAtCtor = {}
  /\ m_no_optimizations_annos = {}
  /\ param = [kind |-> "none", val |-> FALSE]
  /\ last = [op |-> "none"]
  /\ PeepholeIdle

\* ConfigFiles::ConfigFiles(config, outdir)
Construct ==
  /\ ~built
  /\ built' = TRUE
  /\ knownAtCtor' = known
  /\ m_no_optimizations_annos' = denylist_of(m_config, known)
  /\ UNCHANGED <<m_config, known, param, last>>
  /\ UNCHANGED pvars

\* A type is created after construction (load_classes_from_dex).
MakeType ==
  /\ \E ty \in Types \ known : known' = known \cup {ty}
  /\ UNCHANGED <<m_config, built, knownAtCtor, m_no_optimizations_annos, param, last>>
  /\ UNCHANGED pvars

\* g_redex = new RedexContext(): the type table starts empty again.
NewContext ==
  /\ known # {}
  /\ known' = {}
  /\ UNCHANGED <<m_config, built, knownAtCtor, m_no_optimizations_annos, param, last>>
  /\ UNCHANGED pvars

Call(op, key, dflt, prev, r) ==
  [op |-> op, name |-> key, dflt |-> dflt, prev |-> prev, threw |-> r.threw]

GetBool ==
  /\ built
  /\ \E key \in {"flag", "list", "map"}, dflt \in BOOLEAN, prev \in BOOLEAN :
       LET r == get_bool(m_config, key, dflt, prev)
       IN /\ param' = [kind |-> "bool", val |-> r.val]
          /\ last' = Call("get_bool", key, dflt, prev, r)
  /\ UNCHANGED <<m_config, built, known, knownAtCtor, m_no_optimizations_annos>>
  /\ UNCHANGED pvars

GetVec ==
  /\ built
  /\ \E dflt \in VecDefaults, prev \in VecPrevious :
       LET r == get_vec(m_config, "list", dflt, prev)
       IN /\ param' = [kind |-> "vec", val |-> r.val]
          /\ last' = Call("get_vec", "list", dflt, prev, r)
  /\ UNCHANGED <<m_config, built, known, knownAtCtor, m_no_optimizations_annos>>
  /\ UNCHANGED pvars

GetSet ==
  /\ built
  /\ \E dflt \in VecDefaults, prev \in VecPrevious :
       LET r == get_set(m_config, "list", dflt, Range(prev))
       IN /\ param' = [kind |-> "set", val |-> r.val]
          /\ last' = Call("get_set", "list", dflt, Range(prev), r)
  /\ UNCHANGED <<m_config, built, known, knownAtCtor, m_no_optimizations_annos>>
  /\ UNCHANGED pvars

GetMap ==
  /\ built
  /\ \E key \in {"map", "list", "flag"}, dflt \in MapDefaults, prev \in MapPrevious :
       LET r == get_map(m_config, key, dflt, prev)
       IN /\ param' = [kind |-> "map", val |-> r.val]
          /\ last' = Call("get_map", key, dflt, prev, r)
  /\ UNCHANGED <<m_config, built, known, knownAtCtor, m_no_optimizations_annos>>
  /\ UNCHANGED pvars

NextConfig ==
  \/ Construct
  \/ MakeType
  \/ NewContext
  \/ GetBool
  \/ GetVec
  \/ GetSet
  \/ GetMap

SpecConfig == InitConfig /\ [][NextConfig]_vars

(***************************************************************************)
(* Fairness: the pass is a synchronous loop that keeps running, and test_1 *)
(* runs to its EXPECT_EQ.                                                  *)
(***************************************************************************)
InitLive == InitFrom(TestCases \cup LiveCases)

SpecPeepholeFair == InitLive /\ [][NextPeephole]_vars /\ WF_vars(NextPeephole)

(***************************************************************************)
(* Properties of the peephole pass                                         *)
(***************************************************************************)
Ran == pc \in {"ran", "checked"}
CONST_v0_42 == [opcode |-> OPCODE_CONST_16, dest |-> 0, srcs |-> <<>>, literal |-> 42]
Unary(op, d, s) == [opcode |-> op, dest |-> d, srcs |-> <<s>>, literal |-> 0]
Arith(op, d, s, l) == [opcode |-> op, dest |-> d, srcs |-> <<s>>, literal |-> l]

IdentityPairs ==
  { <<OPCODE_ADD_INT_LIT8, 0>>, <<OPCODE_ADD_INT_LIT16, 0>>,
    <<OPCODE_MUL_INT_LIT8, 1>>, <<OPCODE_MUL_INT_LIT16, 1>> }
IdentityNames ==
  { "add8_0_to_move", "add16_0_to_move", "mult8_1_to_move", "mult16_1_to_move" }

\* C1: after the pass over [CONST_16 v0, 42; OP v1, v0, lit] with (OP, lit) one
\* of (ADD_INT_LIT8, 0), (ADD_INT_LIT16, 0), (MUL_INT_LIT8, 1), (MUL_INT_LIT16, 1)
\* the method holds exactly [CONST_16 v0, 42; MOVE_16 v1, v0], which is the list
\* the test expects (op_unary(OPCODE_MOVE_16)), and the four identity tests pass.
C1_IdentityRewrite ==
  /\ (Ran /\ runs = 1
        /\ \E pr \in IdentityPairs :
             source = <<CONST_v0_42, Arith(pr[1], 1, 0, pr[2])>>)
     => /\ result = <<CONST_v0_42, Unary(OPCODE_MOVE_16, 1, 0)>>
        /\ list_equal(result, op_unary(OPCODE_MOVE_16))
  /\ (pc = "checked" /\ runs = 1 /\ name \in IdentityNames)
     => /\ verdict = "pass"
        /\ \E pr \in IdentityPairs :
             source = <<CONST_v0_42, Arith(pr[1], 1, 0, pr[2])>>

C1_Witness ==
  /\ pc = "checked"
  /\ runs = 1
  /\ name = "mult16_1_to_move"
  /\ verdict = "pass"
  /\ result = <<CONST_v0_42, Unary(OPCODE_MOVE_16, 1, 0)>>

Neg1(insn) == insn.opcode \in MulLitOps \cup DivLitOps /\ insn.literal = -1
FitsNeg(insn) == insn.dest <= 15 /\ \A n \in 1..Len(insn.srcs) : insn.srcs[n] <= 15

NegateNames ==
  { "mult8_neg1_to_neg", "mult16_neg1_to_neg", "div8_neg1_to_neg", "div16_neg1_to_neg" }

\* C2: a MUL or DIV literal instruction with literal -1 is replaced by
\* NEG_INT Rd, Rs exactly when Rd and Rs are both at most 15, and is kept as it
\* was otherwise; the four negate tests get the expected NEG_INT v1, v0 and
\* the stream of mult16_neg1_far (Rd = 17) comes out unchanged.
C2_NegGatedByEncodability ==
  /\ (pc = "checked" /\ runs = 1 /\ name \in NegateNames)
     => /\ Neg1(source[2]) /\ FitsNeg(source[2])
        /\ list_equal(result, negate)
        /\ verdict = "pass"
  /\ \A k \in 1..Len(applied) :
       LET insn == stream[applied[k].at]
       IN Neg1(insn) =>
            /\ applied[k].outLen = 1
            /\ IF FitsNeg(insn)
               THEN out[applied[k].outAt] =
                      [opcode |-> OPCODE_NEG_INT, dest |-> insn.dest,
                       srcs |-> insn.srcs, literal |-> 0]
               ELSE out[applied[k].outAt] = insn
  /\ (Ran /\ runs = 1 /\ name = "mult16_neg1_far")
     => /\ source = <<CONST_v0_42, Arith(OPCODE_MUL_INT_LIT8, 17, 0, -1)>>
        /\ result = source
        /\ (pc = "checked" => verdict = "pass")

C2_Witness ==
  /\ pc = "ran"
  /\ Len(source) = 2
  /\ Neg1(source[1]) /\ source[1].dest = 16 /\ result[1] = source[1]
  /\ Neg1(source[2]) /\ source[2].dest = 1 /\ result[2] = Unary(OPCODE_NEG_INT, 1, 0)

NonIdentity(insn) ==
  \/ insn.opcode \in AddLitOps /\ insn.literal # 0
  \/ insn.opcode \in MulLitOps /\ insn.literal \notin {1, -1}
  \/ insn.opcode \in DivLitOps /\ insn.literal # -1
NoChangeNames == { "add8_15", "add16_1", "mult8_3", "mult16_12" }

\* C3: the pass leaves every stream [CONST_16 v0, 42; OP v1, v0, L] whose
\* literal is not an identity of OP exactly as it was (same length, opcodes,
\* registers and literals), and the four no-change tests are such streams and pass.
C3_NonIdentityUnchanged ==
  /\ (Ran /\ runs = 1 /\ Len(source) = 2 /\ source[1] = CONST_v0_42
        /\ source[2].dest = 1 /\ source[2].srcs = <<0>> /\ NonIdentity(source[2]))
     => result = source
  /\ (Ran /\ runs = 1 /\ name \in NoChangeNames)
     => /\ NonIdentity(source[2])
        /\ result = source
        /\ (pc = "checked" => verdict = "pass")

C3_Witness ==
  /\ pc = "checked"
  /\ name = "mult8_3"
  /\ source[2] = Arith(OPCODE_MUL_INT_LIT8, 1, 0, 3)
  /\ result = source
  /\ verdict = "pass"

\* C4 as stated: the pass over add8_0_to_move's stream consumes the CONST and
\* leaves one instruction, the move.
C4_ConstConsumed ==
  (Ran /\ runs = 1 /\ name = "add8_0_to_move")
  => /\ Len(result) = 1
     /\ \A n \in 1..Len(result) : result[n].opcode # OPCODE_CONST_16

\* C4 as amended: rules 1-4 match the literal-arithmetic instruction alone and
\* replace it with one instruction, so a pass keeps the stream's length and
\* every CONST_16 in its place; add8_0_to_move's stream
\* [CONST_16 v0, 42; ADD_INT_LIT8 v1, v0, 0] becomes the expected
\* [CONST_16 v0, 42; MOVE_16 v1, v0], of length 2.
C4_ConstKept ==
  /\ Ran => /\ Len(result) = Len(stream)
            /\ \A n \in 1..Len(stream) :
                 stream[n].opcode = OPCODE_CONST_16 => result[n] = stream[n]
  /\ \A k \in 1..Len(applied) : applied[k].outLen = 1 /\ applied[k].outAt = applied[k].at
  /\ (Ran /\ runs = 1 /\ name = "add8_0_to_move")
     => /\ source = <<CONST_v0_42, Arith(OPCODE_ADD_INT_LIT8, 1, 0, 0)>>
        /\ Len(expected) = 2
        /\ list_equal(result, expected)
        /\ result[1] = CONST_v0_42
        /\ result[2] = Unary(OPCODE_MOVE_16, 1, 0)

C4_Witness ==
  /\ pc = "checked"
  /\ runs = 1
  /\ name = "add8_0_to_move"
  /\ Len(result) = 2
  /\ result[1].opcode = OPCODE_CONST_16
  /\ verdict = "pass"

\* The rule of the table that rewrites insn, written out: 0 when none does.
ExpectedRule(insn) ==
  IF insn.opcode \in AddLitOps /\ insn.literal = 0 THEN 1
  ELSE IF insn.opcode \in MulLitOps /\ insn.literal = 1 THEN 2
  ELSE IF insn.opcode \in MulLitOps /\ insn.literal = -1 /\ FitsNeg(insn) THEN 3
  ELSE IF insn.opcode \in DivLitOps /\ insn.literal = -1 /\ FitsNeg(insn) THEN 4
  ELSE 0

ExpectedTemplate(rule, insn) ==
  << [opcode |-> IF rule \in {1, 2} THEN OPCODE_MOVE_16 ELSE OPCODE_NEG_INT,
      dest |-> insn.dest, srcs |-> insn.srcs, literal |-> 0] >>

C6_Terminates ==
  /\ [][(pc = "scan" /\ pc' = "scan") =>
          /\ pos' > pos
          /\ pos' <= Len(stream) + 1
          /\ stream' = stream
          /\ Len(applied') = Len(applied) + 1
          /\ applied'[Len(applied')].at = pos
          /\ pos' - pos = (IF applied'[Len(applied')].rule = 0 THEN 1
                           ELSE Len(Rules[applied'[Len(applied')].rule].pattern))
          /\ Len(applied') <= Len(stream)]_vars
  /\ (pc = "scan" ~> pc = "ran")

C6_Witness ==
  /\ pc = "ran"
  /\ Len(stream) >= 2
  /\ Len(applied) = Len(stream)
  /\ \E k \in 1..Len(applied) : applied[k].rule # 0
  /\ \E k \in 1..Len(applied) : applied[k].rule = 0

\* C7: a second pass over the first pass's output changes nothing, and no
\* instruction a template has emitted has an opcode that a rule's pattern takes.
C7_Idempotent ==
  /\ (Ran /\ runs >= 2) => result = first
  /\ \A k \in 1..Len(applied) :
       applied[k].rule # 0 =>
         \A n \in applied[k].outAt..(applied[k].outAt + applied[k].outLen - 1) :
           /\ out[n].opcode \in {OPCODE_MOVE_16, OPCODE_NEG_INT}
           /\ \A r \in 1..Len(Rules) : \A m \in 1..Len(Rules[r].pattern) :
                out[n].opcode \notin Rules[r].pattern[m].opcodes

C7_Witness ==
  /\ pc = "checked"
  /\ runs = 2
  /\ first # source
  /\ result = first
  /\ \E n \in 1..Len(first) : first[n].opcode = OPCODE_NEG_INT

(***************************************************************************)
(* Properties of the configuration accessors                               *)
(***************************************************************************)
\* The configuration read directly: whether it holds key, and the value there.
Present(key) == \E n \in 1..Len(m_config.o) : m_config.o[n].k = key
ValueAt(key) == m_config.o[CHOOSE n \in 1..Len(m_config.o) : m_config.o[n].k = key].v

\* str spells tok, ignoring case.
SameIgnoringCase(str, tok) ==
  /\ Len(str) = Len(tok)
  /\ \A n \in 1..Len(tok) : str[n] = tok[n] \/ str[n] = toupper(tok[n])

Spells(str, toks) == \E tok \in toks : SameIgnoringCase(str, tok)

\* C8: after the bool getter, param is the default when the key is absent; the
\* value when it is a JSON bool; false for integer 0 and for a string spelling
\* 0, false, off or no in any case; true for integer 1 and for a string
\* spelling 1, true, on or yes in any case; and for every other value the
\* getter throws and param is what it was.
C8_BoolGetter ==
  last.op = "get_bool" =>
    IF ~Present(last.name)
    THEN ~last.threw /\ param.val = last.dflt
    ELSE LET v == ValueAt(last.name)
         IN IF v.t = "bool" THEN ~last.threw /\ param.val = v.b
            ELSE IF (v.t = "int" /\ v.i = 0)
                    \/ (v.t = "string" /\ Spells(v.s, FalseTokens))
              THEN ~last.threw /\ param.val = FALSE
            ELSE IF (v.t = "int" /\ v.i = 1)
                    \/ (v.t = "string" /\ Spells(v.s, TrueTokens))
              THEN ~last.threw /\ param.val = TRUE
            ELSE last.threw /\ param.val = last.prev

C8_Witness ==
  /\ last.op = "get_bool"
  /\ Present(last.name)
  /\ ValueAt(last.name) = JStr(<<"O", "f", "F">>)
  /\ last.dflt = TRUE
  /\ last.prev = TRUE
  /\ param.val = FALSE

\* The strings of a configured array, in order.
Configured(key) == [n \in 1..Len(ValueAt(key).a) |-> ValueAt(key).a[n].s]

\* A configured object whose members are all arrays of strings.
WellFormedMap(key) ==
  /\ ValueAt(key).t = "object"
  /\ \A n \in 1..Len(ValueAt(key).o) :
       /\ ValueAt(key).o[n].v.t = "array"
       /\ \A m \in 1..Len(ValueAt(key).o[n].v.a) : ValueAt(key).o[n].v.a[m].t = "string"

\* The keys of a configured object that list at least one string.
ListedKeys(key) ==
  { ValueAt(key).o[n].k : n \in { m \in 1..Len(ValueAt(key).o) : ValueAt(key).o[m].v.a # <<>> } }

ListedUnder(key, k) ==
  LET n == CHOOSE m \in 1..Len(ValueAt(key).o) : ValueAt(key).o[m].k = k
  IN [m \in 1..Len(ValueAt(key).o[n].v.a) |-> ValueAt(key).o[n].v.a[m].s]

\* C9: after the list, set or map getter the output is the default when the
\* key is absent, and when the key is present it holds the configured strings
\* (in order for lists, under their keys for the map) and nothing else: nothing
\* of the default, nothing the output held before the call.
C9_CollectionGetters ==
  /\ last.op = "get_vec" =>
       /\ ~last.threw
       /\ param.val = (IF Present(last.name) THEN Configured(last.name) ELSE last.dflt)
  /\ last.op = "get_set" =>
       /\ ~last.threw
       /\ param.val = (IF Present(last.name)
                       THEN { Configured(last.name)[n] : n \in 1..Len(Configured(last.name)) }
                       ELSE { last.dflt[n] : n \in 1..Len(last.dflt) })
  /\ (last.op = "get_map" /\ ~Present(last.name)) =>
       ~last.threw /\ param.val = last.dflt
  /\ (last.op = "get_map" /\ Present(last.name) /\ WellFormedMap(last.name)) =>
       /\ ~last.threw
       /\ DOMAIN param.val = ListedKeys(last.name)
       /\ \A k \in ListedKeys(last.name) : param.val[k] = ListedUnder(last.name, k)

C9_Witness ==
  /\ last.op = "get_vec"
  /\ Present("list")
  /\ last.prev = <<sB, sX>>
  /\ last.dflt = <<sX, sA>>
  /\ param.val = <<sA, sB>>

\* C10: once ConfigFiles is constructed the denylist holds exactly the names
\* listed under "no_optimizations_annotations" that were types at the moment
\* of construction, whatever has run since; it is empty when the key is absent.
C10_DenylistFixedAtConstruction ==
  built =>
    /\ Present("no_optimizations_annotations") =>
         m_no_optimizations_annos =
           { ty \in knownAtCtor :
               \E n \in 1..Len(ValueAt("no_optimizations_annotations").a) :
                 ValueAt("no_optimizations_annotations").a[n].s = ty }
    /\ ~Present("no_optimizations_annotations") => m_no_optimizations_annos = {}

C10_Witness ==
  /\ built
  /\ Present("no_optimizations_annotations")
  /\ Configured("no_optimizations_annotations") = <<TyB, TyA>>
  /\ m_no_optimizations_annos = {TyA}
  /\ TyB \in known
  /\ last.op = "get_set"

====
